---- MODULE Spec2Model ----
(***************************************************************************)
(* Asynchronous job processing of SnapPDF: the ProcessingJob table, the    *)
(* QueueManager (job_queue, worker threads, start/stop/add_job/cancel_job) *)
(* and PDFProcessor.process_job with its status/progress commits.          *)
(*                                                                         *)
(* Granularity: one action per database commit (or queue operation) of a   *)
(* thread.  Every commit of the ORM writes only the columns the thread     *)
(* assigned since its last commit, so a commit is modelled as an update of *)
(* those columns of the stored row, whatever the row holds at that moment. *)
(***************************************************************************)
EXTENDS Integers, Sequences, FiniteSets, TLC

\* ---------------------------------------------------------------- bounds
MaxJobs == 2        \* job records that may be created
MaxFiles == 2       \* input files of one job
MaxStarts == 2      \* effective start() calls (each launches max_workers threads)
MaxClients == 1     \* request threads that may be inside cancel_job at once
ScenarioJobs == 5   \* jobs submitted in the queue-depth scenario
MaxUploads == 4     \* file_uploads rows that may be created
MaxRequestFiles == 2  \* files sent with one upload or tool request
MaxAdmitted == 1    \* jobs created in the admission specification

\* ------------------------------------------------------ program constants
max_workers == 2

\* app.config tier limits; file sizes are counted in MB.
FREE_USER_FILE_LIMIT == 5
FREE_USER_BATCH_LIMIT == 3
PREMIUM_USER_FILE_LIMIT == 100
PREMIUM_USER_BATCH_LIMIT == 100

\* Ids a caller may name; the last one may never be given to a row.
JobIds == 1..(MaxJobs + 1)
Threads == 1..(max_workers * MaxStarts)
Clients == 1..MaxClients

\* JobType members with distinct control flow in process_job's operations:
\* merge (merge_pdfs), split (split_pdfs), jpg_to_pdf (convert_to_pdf),
\* compare (compare_pdf).
JobTypes == {"merge", "split", "jpg_to_pdf", "compare"}

Terminal == {"COMPLETED", "FAILED", "CANCELLED"}

\* output_files column: NULL until process_job assigns json.dumps(result).
\* A result list is a sequence of input-file indices (1-based), so <<0>> is
\* no result list.
NULL == <<0>>

VARIABLES
    is_running,     \* QueueManager.is_running
    workers,        \* QueueManager.workers: the threads launched, in order
    job_queue,      \* QueueManager.job_queue (queue.Queue of job ids)
    db,             \* processing_jobs table: job id -> committed row
    pc,             \* per thread: position in _worker / process_job
    job_id,         \* per thread: PDFProcessor.job_id (0: none)
    file_idx,       \* per thread: loop index of the operation
    result,         \* per thread: the operation's local output list
    client,         \* per request thread: its cancel_job call (pc, the
                    \* job_id argument while inside, the last return value)
    job_status,     \* per thread: self.job.status as PDFProcessor.__init__
                    \* loaded it ("": no row loaded, or expired by a commit)
    enq_log,        \* history: job ids in the order add_job put them
    obs,            \* per request thread: its last get_job_status or
                    \* get_queue_status call and the value it returned
    file_uploads    \* file_uploads table: file id -> committed row

vars == <<is_running, workers, job_queue, db, pc, job_id, file_idx, result,
          client, job_status, enq_log, obs, file_uploads>>

Range(s) == {s[i] : i \in DOMAIN s}

\* ------------------------------------------------------------- the table
\* A new ProcessingJob row as process_files / tool_page commit it: column
\* defaults plus user_id (one user), job_type, input_files (file references
\* 1..n; its length is total_files) and settings (json.dumps({})).
NewJob(kind, n) ==
    [user_id |-> 1, job_type |-> kind, input_files |-> [i \in 1..n |-> i],
     settings |-> "{}", status |-> "PENDING", total_files |-> n,
     progress |-> 0, processed_files |-> 0, output_files |-> NULL,
     error_message |-> "", started_at |-> FALSE, completed_at |-> FALSE]

\* An update_progress that also overwrites total_files.
update_progress_SetsTotal(job, progress, processed_files) ==
    [job EXCEPT !.progress = progress, !.processed_files = processed_files,
                !.total_files = processed_files]

\* PDFProcessor.update_progress on the stored row.
update_progress(job, progress, processed_files) ==
    [job EXCEPT !.progress = progress, !.processed_files = processed_files]

\* An update_status that never stores the message of the exception.
update_status_DropsMessage(job, status, error_message) ==
    IF status = "PROCESSING"
    THEN [job EXCEPT !.status = status, !.started_at = TRUE]
    ELSE [job EXCEPT !.status = status, !.completed_at = TRUE]

\* PDFProcessor.update_status on the stored row.
update_status(job, status, error_message) ==
    LET j1 == [job EXCEPT !.status = status]
        j2 == IF error_message # "" THEN [j1 EXCEPT !.error_message = error_message]
              ELSE j1
    IN  IF status = "PROCESSING" THEN [j2 EXCEPT !.started_at = TRUE]
        ELSE IF status \in {"COMPLETED", "FAILED", "CANCELLED"}
             THEN [j2 EXCEPT !.completed_at = TRUE]
             ELSE j2

\* ---------------------------------------------------------- operations
\* pdf_processor.py imports only db from app, so every operation that
\* evaluates app.config[...] raises NameError there.  merge_pdfs does so
\* before its loop (line 159) and compare_pdf after its len < 2 return
\* (line 1147): both raise out of the operation.  split_pdfs evaluates it
\* inside the per-file try (line 199), where it is caught and the file
\* skipped.  convert_to_pdf never touches app.
NameErrorMsg == "name 'app' is not defined"

\* models.py JobType: the values of the closed set of job kinds.
JobType ==
    {"merge", "split", "compress", "ocr", "protect", "unlock", "watermark",
     "rotate", "extract_images", "convert_word", "convert_excel",
     "remove_pages", "extract_pages", "organize", "scan_to_pdf", "repair",
     "jpg_to_pdf", "word_to_pdf", "powerpoint_to_pdf", "excel_to_pdf",
     "html_to_pdf", "pdf_to_jpg", "pdf_to_powerpoint", "pdf_to_excel",
     "pdf_to_pdfa", "add_page_numbers", "crop", "edit", "sign", "redact",
     "compare"}

\* process_job lines 53-97: the if/elif chain, in order; each branch tests
\* job_type against one member or a list of members and calls one method.
Branches ==
    << [kinds |-> {"merge"}, op |-> "merge_pdfs"],
       [kinds |-> {"split"}, op |-> "split_pdfs"],
       [kinds |-> {"compress"}, op |-> "compress_pdfs"],
       [kinds |-> {"ocr"}, op |-> "ocr_pdfs"],
       [kinds |-> {"convert_word"}, op |-> "convert_to_word"],
       [kinds |-> {"convert_excel"}, op |-> "convert_to_excel"],
       [kinds |-> {"protect"}, op |-> "protect_pdfs"],
       [kinds |-> {"rotate"}, op |-> "rotate_pdfs"],
       [kinds |-> {"watermark"}, op |-> "watermark_pdfs"],
       [kinds |-> {"unlock"}, op |-> "unlock_pdfs"],
       [kinds |-> {"extract_images"}, op |-> "extract_images_pdfs"],
       [kinds |-> {"remove_pages", "extract_pages", "organize"},
        op |-> "organize_pdf_pages"],
       [kinds |-> {"scan_to_pdf"}, op |-> "scan_to_pdf"],
       [kinds |-> {"repair"}, op |-> "repair_pdf"],
       [kinds |-> {"jpg_to_pdf", "word_to_pdf", "powerpoint_to_pdf",
                   "excel_to_pdf", "html_to_pdf"},
        op |-> "convert_to_pdf"],
       [kinds |-> {"pdf_to_jpg", "pdf_to_powerpoint", "pdf_to_excel",
                   "pdf_to_pdfa"},
        op |-> "convert_from_pdf"],
       [kinds |-> {"add_page_numbers"}, op |-> "add_page_numbers"],
       [kinds |-> {"crop"}, op |-> "crop_pdf"],
       [kinds |-> {"edit"}, op |-> "edit_pdf"],
       [kinds |-> {"sign"}, op |-> "sign_pdf"],
       [kinds |-> {"redact"}, op |-> "redact_pdf"],
       [kinds |-> {"compare"}, op |-> "compare_pdf"] >>

\* Line 99: f"Unknown job type: {self.job.job_type}".
UnknownJobTypeMsg(kind) == "Unknown job type: " \o kind

\* job_type values of a row that no branch names: none is a member of
\* JobType as it stands; one stands for a member added without a branch.
UnbranchedKinds == {"flatten"}

\* What the chain does for each job_type a row may hold: the method of the
\* first branch whose test holds, or the else of line 98, which raises
\* ValueError.
DispatchTable ==
    [kind \in JobType \cup UnbranchedKinds |->
        LET M == {i \in DOMAIN Branches : kind \in Branches[i].kinds}
        IN  IF M = {} THEN "ValueError"
            ELSE Branches[CHOOSE i \in M : \A k \in M : i <= k].op]

\* A chain whose final else returns an empty result instead of raising.
DispatchElseReturnsEmpty(kind) ==
    IF DispatchTable[kind] = "ValueError" THEN "return []"
    ELSE DispatchTable[kind]

Dispatch(kind) == DispatchTable[kind]

\* Whether the dispatch and the operation raise out of the try of
\* process_job, and str(e) of the exception.
OpRaises(kind, n) ==
    \/ kind = "merge"
    \/ kind = "compare" /\ n >= 2
    \/ Dispatch(kind) = "ValueError"

ErrorOf(kind) ==
    IF kind \notin {"merge", "compare"} /\ Dispatch(kind) = "ValueError"
    THEN UnknownJobTypeMsg(kind) ELSE NameErrorMsg

\* A per-file loop that runs once more than there are input files.
LoopFilesOneMore(kind, n) ==
    IF kind \in {"split", "jpg_to_pdf"} THEN n + 1 ELSE 0

\* Iterations of the operation's per-file loop.
LoopFiles(kind, n) == IF kind \in {"split", "jpg_to_pdf"} THEN n ELSE 0

\* What one iteration can do: "skip" (exception caught, continue), "empty"
\* (split of a file with no pages: no output, progress updated), "ok"
\* (output appended, progress updated).
FileOutcomes(kind) ==
    IF kind = "split" THEN {"skip", "empty"} ELSE {"skip", "ok"}

\* A progress that reports the share of files still to do.
ProgressOfRemaining(i, n) == ((n - i) * 100) \div n

\* int((i + 1) / len(input_files) * 100) with i the 0-based loop index.
Progress(i, n) == ((i + 1) * 100) \div n

\* ------------------------------------------------------------ lifecycle
Init ==
    /\ is_running = FALSE
    /\ workers = <<>>
    /\ job_queue = <<>>
    /\ db = <<>>
    /\ pc = [w \in Threads |-> "off"]
    /\ job_id = [w \in Threads |-> 0]
    /\ file_idx = [w \in Threads |-> 0]
    /\ result = [w \in Threads |-> <<>>]
    /\ client = [c \in Clients |-> [pc |-> "idle", job |-> 0, ret |-> "none"]]
    /\ job_status = [w \in Threads |-> ""]
    /\ enq_log = <<>>
    /\ obs = [c \in Clients |-> [call |-> "none", value |-> [id |-> 0]]]
    /\ file_uploads = <<>>

\* A start without the is_running test: every call launches threads.
start_Unguarded ==
    /\ Len(workers) + max_workers <= max_workers * MaxStarts
    /\ is_running' = TRUE
    /\ workers' = workers \o [i \in 1..max_workers |-> Len(workers) + i]
    /\ pc' = [w \in Threads |->
                IF w \in (Len(workers) + 1)..(Len(workers) + max_workers)
                THEN "check" ELSE pc[w]]
    /\ UNCHANGED <<job_queue, db, job_id, file_idx, result, client,
                   job_status, enq_log, obs, file_uploads>>

\* QueueManager.start
start ==
    IF is_running
    THEN UNCHANGED vars
    ELSE /\ Len(workers) + max_workers <= max_workers * MaxStarts
         /\ is_running' = TRUE
         /\ workers' = workers \o [i \in 1..max_workers |-> Len(workers) + i]
         /\ pc' = [w \in Threads |->
                     IF w \in (Len(workers) + 1)..(Len(workers) + max_workers)
                     THEN "check" ELSE pc[w]]
         /\ UNCHANGED <<job_queue, db, job_id, file_idx, result, client,
                        job_status, enq_log, obs, file_uploads>>

\* QueueManager.stop
stop ==
    /\ is_running' = FALSE
    /\ UNCHANGED <<workers, job_queue, db, pc, job_id, file_idx, result,
                   client, job_status, enq_log, obs, file_uploads>>

\* ------------------------------------------------------------ admission
\* process_files / tool_page up to db.session.commit(): the row is stored.
\* Ids are uuids; the model hands them out in order of creation.
CreateJob(j, kind, n) ==
    /\ j = Len(db) + 1
    /\ db' = Append(db, NewJob(kind, n))
    /\ UNCHANGED <<is_running, workers, job_queue, pc, job_id, file_idx,
                   result, client, job_status, enq_log, obs, file_uploads>>

\* A put on a queue of capacity one that discards the id when it is full.
QueuePutDropsWhenFull(q, j) == IF Len(q) >= 1 THEN q ELSE Append(q, j)

\* Queue.put: at the tail.
QueuePut(q, j) == Append(q, j)

\* An add_job that hands the id over only when a worker is waiting in get.
add_job_WaitsForWorker(j) ==
    /\ j \in DOMAIN db
    /\ j \notin Range(enq_log)
    /\ \E w \in Threads : pc[w] = "get"
    /\ job_queue' = QueuePut(job_queue, j)
    /\ enq_log' = Append(enq_log, j)
    /\ UNCHANGED <<is_running, workers, db, pc, job_id, file_idx, result,
                   client, job_status, obs, file_uploads>>

\* QueueManager.add_job, called once by the request that created the row.
add_job(j) ==
    /\ j \in DOMAIN db
    /\ j \notin Range(enq_log)
    /\ job_queue' = QueuePut(job_queue, j)
    /\ enq_log' = Append(enq_log, j)
    /\ UNCHANGED <<is_running, workers, db, pc, job_id, file_idx, result,
                   client, job_status, obs, file_uploads>>

\* A job whose row vanished while its id waited in the queue: process_files
\* committed the row and called add_job, and cleanup_old_files deleted the
\* row (utils.py 47-57) before a worker dequeued the id.  In one step, for
\* an id that names no row: what is left is the id in the queue.
EnqueueVanished(j) ==
    /\ j \notin DOMAIN db
    /\ j \notin Range(enq_log)
    /\ job_queue' = QueuePut(job_queue, j)
    /\ enq_log' = Append(enq_log, j)
    /\ UNCHANGED <<is_running, workers, db, pc, job_id, file_idx, result,
                   client, job_status, obs, file_uploads>>

\* ---------------------------------------------------- admission (routes)
\* Two accounts: user 1 is a free user, user 2 has User.is_premium set.
Users == {1, 2}

is_premium(u) == u = 2

\* upload_files lines 126 and 133: the limits of the requesting user.
batch_limit(u) ==
    IF ~is_premium(u) THEN FREE_USER_BATCH_LIMIT ELSE PREMIUM_USER_BATCH_LIMIT

file_limit(u) ==
    IF ~is_premium(u) THEN FREE_USER_FILE_LIMIT ELSE PREMIUM_USER_FILE_LIMIT

\* Sizes (MB) of the files a request may carry: one within and one beyond
\* the free per-file limit; the lists of files of one request.
FileSizes == {1, FREE_USER_FILE_LIMIT + 1}

FileLists == UNION {[1..n -> FileSizes] : n \in 1..MaxRequestFiles}

\* job_type strings a /process request may send: a JobType value and a
\* string that is none.
JobTypeStrings == {"merge", "not_a_job_type"}

\* FileUpload rows for the files of one request, owned by the requester.
NewUploads(u, sizes) ==
    [i \in 1..Len(sizes) |-> [user_id |-> u, file_size |-> sizes[i]]]

\* The rows a query returns, as a list in id order.
RECURSIVE InIdOrder(_)
InIdOrder(S) ==
    IF S = {} THEN <<>>
    ELSE LET m == CHOOSE x \in S : \A y \in S : x <= y
         IN  <<m>> \o InIdOrder(S \ {m})

\* The HTTP response a request thread sends.
Response(c, call, code) ==
    [obs EXCEPT ![c] = [call |-> call, value |-> [code |-> code]]]

\* Sizes (MB) an upload request may carry: within, at and beyond the free
\* per-file limit, and beyond the premium one.
UploadSizes == {1, FREE_USER_FILE_LIMIT, FREE_USER_FILE_LIMIT + 1,
                PREMIUM_USER_FILE_LIMIT + 1}

\* The batches of an upload request: every list of up to MaxRequestFiles
\* files, and lists of small files as long as each batch limit and one
\* longer.
UploadBatches ==
    UNION {[1..n -> UploadSizes] : n \in 1..MaxRequestFiles}
    \cup {[i \in 1..n |-> 1] :
             n \in {FREE_USER_BATCH_LIMIT, FREE_USER_BATCH_LIMIT + 1,
                    PREMIUM_USER_BATCH_LIMIT, PREMIUM_USER_BATCH_LIMIT + 1}}

\* An upload_files that saves and records the files in order until it meets
\* one beyond the per-file limit.
upload_files_StoresUntilLimit(c, u, sizes) ==
    LET bad == {i \in DOMAIN sizes : sizes[i] > file_limit(u)}
        kept == IF bad = {} THEN sizes
                ELSE SubSeq(sizes, 1,
                            (CHOOSE i \in bad : \A k \in bad : i <= k) - 1)
    IN  /\ IF Len(sizes) > batch_limit(u)
           THEN /\ file_uploads' = file_uploads
                /\ obs' = Response(c, "upload_files", 400)
           ELSE /\ Len(file_uploads) + Len(kept) <= MaxUploads
                /\ file_uploads' = file_uploads \o NewUploads(u, kept)
                /\ obs' = Response(c, "upload_files",
                                   IF bad = {} THEN 200 ELSE 400)
        /\ UNCHANGED <<is_running, workers, job_queue, db, pc, job_id,
                       file_idx, result, client, job_status, enq_log>>

\* routes.py upload_files: the batch test (lines 126-128), the loop of
\* per-file tests (133-148), both with the limits of the requester's tier
\* and both before anything is saved; then one file saved and one
\* FileUpload row added per file, committed together (151-187).
upload_files(c, u, sizes) ==
    /\ IF \/ Len(sizes) > batch_limit(u)
          \/ \E i \in DOMAIN sizes : sizes[i] > file_limit(u)
       THEN /\ file_uploads' = file_uploads
            /\ obs' = Response(c, "upload_files", 400)
       ELSE /\ Len(file_uploads) + Len(sizes) <= MaxUploads
            /\ file_uploads' = file_uploads \o NewUploads(u, sizes)
            /\ obs' = Response(c, "upload_files", 200)
    /\ UNCHANGED <<is_running, workers, job_queue, db, pc, job_id, file_idx,
                   result, client, job_status, enq_log>>

\* A process_files that looks the files up without the owner filter.
process_files_AnyOwner(c, u, job_type_str, file_ids) ==
    LET found == {f \in file_ids : f \in DOMAIN file_uploads}
    IN  /\ Len(db) < MaxAdmitted
        /\ IF job_type_str \notin JobTypes
              \/ Cardinality(found) # Cardinality(file_ids)
           THEN /\ db' = db
                /\ obs' = Response(c, "process_files", 400)
           ELSE /\ db' = Append(db,
                          [NewJob(job_type_str, Cardinality(found)) EXCEPT
                             !.user_id = u, !.input_files = InIdOrder(found)])
                /\ obs' = Response(c, "process_files", 200)
        /\ UNCHANGED <<is_running, workers, job_queue, pc, job_id, file_idx,
                       result, client, job_status, enq_log, file_uploads>>

\* routes.py process_files up to the commit of the job row: JobType(...) of
\* the request's job_type, the query for the requested files owned by the
\* requester, the length test, and the new row.  The request thread then
\* calls add_job (action add_job) and sends the 200 recorded here.
process_files(c, u, job_type_str, file_ids) ==
    LET found == {f \in file_ids : /\ f \in DOMAIN file_uploads
                                    /\ file_uploads[f].user_id = u}
    IN  /\ Len(db) < MaxAdmitted
        /\ IF job_type_str \notin JobTypes
              \/ Cardinality(found) # Cardinality(file_ids)
           THEN /\ db' = db
                /\ obs' = Response(c, "process_files", 400)
           ELSE /\ db' = Append(db,
                          [NewJob(job_type_str, Cardinality(found)) EXCEPT
                             !.user_id = u, !.input_files = InIdOrder(found)])
                /\ obs' = Response(c, "process_files", 200)
        /\ UNCHANGED <<is_running, workers, job_queue, pc, job_id, file_idx,
                       result, client, job_status, enq_log, file_uploads>>

\* routes.py tool_page (POST) up to the commit of the job row: every file
\* of the form is saved as a FileUpload row, with no test of the tier, and
\* the job is created over exactly those files.  The request thread then
\* calls add_job (action add_job) and redirects.
tool_page(c, u, kind, sizes) ==
    /\ Len(db) < MaxAdmitted
    /\ Len(file_uploads) + Len(sizes) <= MaxUploads
    /\ file_uploads' = file_uploads \o NewUploads(u, sizes)
    /\ db' = Append(db,
                [NewJob(kind, Len(sizes)) EXCEPT
                   !.user_id = u,
                   !.input_files = [i \in 1..Len(sizes) |->
                                      Len(file_uploads) + i]])
    /\ obs' = Response(c, "tool_page", 302)
    /\ UNCHANGED <<is_running, workers, job_queue, pc, job_id, file_idx,
                   result, client, job_status, enq_log>>

\* --------------------------------------------------------------- workers
\* _worker, `while self.is_running:` -- the loop test.
WorkerLoop(w) ==
    /\ pc[w] = "check"
    /\ pc' = [pc EXCEPT ![w] = IF is_running THEN "get" ELSE "exit"]
    /\ UNCHANGED <<is_running, workers, job_queue, db, job_id, file_idx,
                   result, client, job_status, enq_log, obs, file_uploads>>

\* A get that returns the head and leaves it on the queue.
QueueGetPeek(q) == [item |-> Head(q), rest |-> q]

\* A get that takes the newest id instead of the oldest.
QueueGetNewest(q) == [item |-> q[Len(q)], rest |-> SubSeq(q, 1, Len(q) - 1)]

\* Queue.get on a non-empty queue: the head is returned and removed.
QueueGet(q) == [item |-> Head(q), rest |-> Tail(q)]

\* A _worker that ends after its first job instead of looping.
AfterProcessJobOnce(raised) == "exit"

\* A _worker whose thread dies with the exception of a job.
AfterProcessJobEscapes(raised) == IF raised THEN "exit" ELSE "check"

\* Where _worker goes once _process_job is over.  _process_job catches
\* every Exception of PDFProcessor(job_id) and process_job and logs it;
\* _worker then calls task_done and tests the loop condition again.
AfterProcessJob(raised) == "check"

\* A worker that leaves an id without a row at the head of the queue.
WorkerGetKeepsVanished(w) ==
    /\ pc[w] = "get"
    /\ job_queue # <<>>
    /\ LET j == QueueGet(job_queue).item IN
          IF j \in DOMAIN db
          THEN /\ pc' = [pc EXCEPT ![w] = "start"]
               /\ job_id' = [job_id EXCEPT ![w] = j]
               /\ job_status' = [job_status EXCEPT ![w] = db[j].status]
               /\ job_queue' = QueueGet(job_queue).rest
          ELSE /\ pc' = [pc EXCEPT ![w] = AfterProcessJob(TRUE)]
               /\ UNCHANGED <<job_id, job_status, job_queue>>
    /\ UNCHANGED <<is_running, workers, db, file_idx, result, client,
                   enq_log, obs, file_uploads>>

\* _worker: job_queue.get(timeout=1) returns an id; _process_job builds
\* PDFProcessor(job_id), whose query.get loads the row into self.job or
\* raises ValueError when there is none.
WorkerGet(w) ==
    /\ pc[w] = "get"
    /\ job_queue # <<>>
    /\ LET j == QueueGet(job_queue).item IN
          IF j \in DOMAIN db
          THEN /\ pc' = [pc EXCEPT ![w] = "start"]
               /\ job_id' = [job_id EXCEPT ![w] = j]
               /\ job_status' = [job_status EXCEPT ![w] = db[j].status]
          ELSE /\ pc' = [pc EXCEPT ![w] = AfterProcessJob(TRUE)]
               /\ UNCHANGED <<job_id, job_status>>
    /\ job_queue' = QueueGet(job_queue).rest
    /\ UNCHANGED <<is_running, workers, db, file_idx, result, client,
                   enq_log, obs, file_uploads>>

\* _worker: job_queue.get(timeout=1) raises Empty after a second with no
\* id; the bare except continues to the loop test, which either re-enters
\* get or ends the thread.
WorkerTimeout(w) ==
    /\ pc[w] = "get"
    /\ job_queue = <<>>
    /\ pc' = [pc EXCEPT ![w] = IF is_running THEN "get" ELSE "exit"]
    /\ UNCHANGED <<is_running, workers, job_queue, db, job_id, file_idx,
                   result, client, job_status, enq_log, obs, file_uploads>>

\* process_job line 48: update_status(JobStatus.PROCESSING) assigns status
\* and started_at whatever self.job.status holds, and commits (which
\* expires self.job); then the dispatch on job_type enters the operation.
ProcessJobStart(w) ==
    /\ pc[w] = "start"
    /\ db' = [db EXCEPT ![job_id[w]] = update_status(@, "PROCESSING", "")]
    /\ pc' = [pc EXCEPT ![w] = "op"]
    /\ file_idx' = [file_idx EXCEPT ![w] = 0]
    /\ result' = [result EXCEPT ![w] = <<>>]
    /\ job_status' = [job_status EXCEPT ![w] = ""]
    /\ UNCHANGED <<is_running, workers, job_queue, job_id, client, enq_log,
                   obs, file_uploads>>

\* One iteration of the operation's loop over input_files.
OperationFile(w) ==
    LET j == job_id[w]
        kind == db[j].job_type
        n == db[j].total_files
        i == file_idx[w]
    IN  /\ pc[w] = "op"
        /\ ~OpRaises(kind, n)
        /\ i < LoopFiles(kind, n)
        /\ \E o \in FileOutcomes(kind) :
              /\ result' = [result EXCEPT ![w] =
                              IF o = "ok" THEN Append(@, i + 1) ELSE @]
              /\ db' = IF o = "skip" THEN db
                       ELSE [db EXCEPT ![j] =
                               update_progress(@, Progress(i, n), i + 1)]
        /\ file_idx' = [file_idx EXCEPT ![w] = i + 1]
        /\ UNCHANGED <<is_running, workers, job_queue, pc, job_id, client,
                       job_status, enq_log, obs, file_uploads>>

\* process_job lines 100-105: the operation returned `result`; the row gets
\* output_files = json.dumps(result) and update_status(COMPLETED) commits.
ProcessJobCompleted(w) ==
    LET j == job_id[w]
        kind == db[j].job_type
        n == db[j].total_files
    IN  /\ pc[w] = "op"
        /\ ~OpRaises(kind, n)
        /\ file_idx[w] = LoopFiles(kind, n)
        /\ db' = [db EXCEPT ![j] =
                    update_status([@ EXCEPT !.output_files = result[w]],
                                  "COMPLETED", "")]
        /\ pc' = [pc EXCEPT ![w] = "final"]
        /\ UNCHANGED <<is_running, workers, job_queue, job_id, file_idx,
                       result, client, job_status, enq_log, obs,
                       file_uploads>>

\* process_job line 106: update_progress(100, self.job.total_files), then
\* the return to _process_job and _worker.
ProcessJobFinal(w) ==
    LET j == job_id[w] IN
        /\ pc[w] = "final"
        /\ db' = [db EXCEPT ![j] = update_progress(@, 100, db[j].total_files)]
        /\ pc' = [pc EXCEPT ![w] = AfterProcessJob(FALSE)]
        /\ job_id' = [job_id EXCEPT ![w] = 0]
        /\ file_idx' = [file_idx EXCEPT ![w] = 0]
        /\ result' = [result EXCEPT ![w] = <<>>]
        /\ UNCHANGED <<is_running, workers, job_queue, client, job_status,
                       enq_log, obs, file_uploads>>

\* A failure handler that puts the failed id back on the queue.
ProcessJobFailedRetries(w) ==
    LET j == job_id[w]
        kind == db[j].job_type
        n == db[j].total_files
    IN  /\ pc[w] = "op"
        /\ OpRaises(kind, n)
        /\ db' = [db EXCEPT ![j] = update_status(@, "FAILED", NameErrorMsg)]
        /\ pc' = [pc EXCEPT ![w] = AfterProcessJob(TRUE)]
        /\ job_queue' = Append(job_queue, j)
        /\ job_id' = [job_id EXCEPT ![w] = 0]
        /\ file_idx' = [file_idx EXCEPT ![w] = 0]
        /\ result' = [result EXCEPT ![w] = <<>>]
        /\ UNCHANGED <<is_running, workers, client, job_status, enq_log,
                       obs, file_uploads>>

\* process_job lines 110-113: the operation raised; update_status(FAILED,
\* str(e)) commits and the exception goes up to _process_job.
ProcessJobFailed(w) ==
    LET j == job_id[w]
        kind == db[j].job_type
        n == db[j].total_files
    IN  /\ pc[w] = "op"
        /\ OpRaises(kind, n)
        /\ db' = [db EXCEPT ![j] = update_status(@, "FAILED", ErrorOf(kind))]
        /\ pc' = [pc EXCEPT ![w] = AfterProcessJob(TRUE)]
        /\ job_id' = [job_id EXCEPT ![w] = 0]
        /\ file_idx' = [file_idx EXCEPT ![w] = 0]
        /\ result' = [result EXCEPT ![w] = <<>>]
        /\ UNCHANGED <<is_running, workers, job_queue, client, job_status,
                       enq_log, obs, file_uploads>>

\* ----------------------------------------------------------- cancel_job
\* A cancel_job that also accepts a finished job.
CancellableAlsoCompleted == {"PENDING", "PROCESSING", "COMPLETED"}

\* The statuses cancel_job accepts (line 98).
Cancellable == {"PENDING", "PROCESSING"}

\* cancel_job lines 97-98 and 103: query.get, the status test, and the
\* return of False when the test fails.
CancelRead(c, j) ==
    /\ client[c].pc = "idle"
    /\ client' = [client EXCEPT ![c] =
                    IF j \in DOMAIN db /\ db[j].status \in Cancellable
                    THEN [pc |-> "commit", job |-> j, ret |-> "none"]
                    ELSE [pc |-> "idle", job |-> 0, ret |-> "false"]]
    /\ UNCHANGED <<is_running, workers, job_queue, db, pc, job_id, file_idx,
                   result, job_status, enq_log, obs, file_uploads>>

\* cancel_job lines 99-102: status and completed_at are assigned and
\* committed, and True is returned.
CancelCommit(c) ==
    LET j == client[c].job IN
        /\ client[c].pc = "commit"
        /\ db' = [db EXCEPT ![j] = [@ EXCEPT !.status = "CANCELLED",
                                             !.completed_at = TRUE]]
        /\ client' = [client EXCEPT ![c] =
                        [pc |-> "idle", job |-> 0, ret |-> "true"]]
        /\ UNCHANGED <<is_running, workers, job_queue, pc, job_id, file_idx,
                       result, job_status, enq_log, obs, file_uploads>>

\* ------------------------------------------------------------- observers
\* QueueManager.get_queue_status: qsize(), the flag, len(self.workers).
get_queue_status ==
    [queue_size |-> Len(job_queue), is_running |-> is_running,
     worker_count |-> Len(workers)]

\* What get_job_status returns for an id with no row (line 79-80).
None == [id |-> 0]

\* QueueManager.get_job_status: None, or the row's columns it copies.
get_job_status(j) ==
    IF j \notin DOMAIN db THEN None
    ELSE [id |-> j, status |-> db[j].status, progress |-> db[j].progress,
          total_files |-> db[j].total_files,
          processed_files |-> db[j].processed_files,
          error_message |-> db[j].error_message,
          started_at |-> db[j].started_at,
          completed_at |-> db[j].completed_at]

\* A request thread calls get_job_status(j) and gets its return value.
GetJobStatus(c, j) ==
    /\ client[c].pc = "idle"
    /\ obs' = [obs EXCEPT ![c] =
                 [call |-> "get_job_status", value |-> get_job_status(j)]]
    /\ UNCHANGED <<is_running, workers, job_queue, db, pc, job_id, file_idx,
                   result, client, job_status, enq_log, file_uploads>>

\* A get_queue_status that empties the queue it measures.
GetQueueStatusDrains(c) ==
    /\ client[c].pc = "idle"
    /\ obs' = [obs EXCEPT ![c] =
                 [call |-> "get_queue_status", value |-> get_queue_status]]
    /\ job_queue' = <<>>
    /\ UNCHANGED <<is_running, workers, db, pc, job_id, file_idx,
                   result, client, job_status, enq_log, file_uploads>>

\* A request thread calls get_queue_status() and gets its return value.
GetQueueStatus(c) ==
    /\ client[c].pc = "idle"
    /\ obs' = [obs EXCEPT ![c] =
                 [call |-> "get_queue_status", value |-> get_queue_status]]
    /\ UNCHANGED <<is_running, workers, job_queue, db, pc, job_id, file_idx,
                   result, client, job_status, enq_log, file_uploads>>

\* ------------------------------------------------------ routes on a job
\* What a job route answers: the HTTP code and, from job_status, the
\* status document; user and job are the requester and the id of the URL.
RouteResponse(c, call, u, j, code, status) ==
    [obs EXCEPT ![c] =
        [call |-> call,
         value |-> [code |-> code, user |-> u, job |-> j, status |-> status]]]

\* A cancel route that looks the job up by id alone.
cancel_job_route_AnyUser(c, u, j) ==
    /\ client[c].pc = "idle"
    /\ IF j \in DOMAIN db
       THEN /\ client' = [client EXCEPT ![c] =
                            IF db[j].status \in Cancellable
                            THEN [pc |-> "commit", job |-> j, ret |-> "none"]
                            ELSE [pc |-> "idle", job |-> 0, ret |-> "false"]]
            /\ obs' = RouteResponse(c, "cancel_job", u, j,
                         IF db[j].status \in Cancellable THEN 200 ELSE 400,
                         None)
       ELSE /\ client' = client
            /\ obs' = RouteResponse(c, "cancel_job", u, j, 404, None)
    /\ UNCHANGED <<is_running, workers, job_queue, db, pc, job_id, file_idx,
                   result, job_status, enq_log, file_uploads>>

\* routes.py cancel_job: the lookup by id and user_id == current_user.id and
\* its 404; for a row found, QueueManager.cancel_job up to its status test
\* (as CancelRead), whose outcome decides between the 200 and the 400 the
\* route sends when cancel_job has returned (its commit is CancelCommit).
cancel_job_route(c, u, j) ==
    /\ client[c].pc = "idle"
    /\ IF j \in DOMAIN db /\ db[j].user_id = u
       THEN /\ client' = [client EXCEPT ![c] =
                            IF db[j].status \in Cancellable
                            THEN [pc |-> "commit", job |-> j, ret |-> "none"]
                            ELSE [pc |-> "idle", job |-> 0, ret |-> "false"]]
            /\ obs' = RouteResponse(c, "cancel_job", u, j,
                         IF db[j].status \in Cancellable THEN 200 ELSE 400,
                         None)
       ELSE /\ client' = client
            /\ obs' = RouteResponse(c, "cancel_job", u, j, 404, None)
    /\ UNCHANGED <<is_running, workers, job_queue, db, pc, job_id, file_idx,
                   result, job_status, enq_log, file_uploads>>

\* routes.py job_status: the same lookup and 404; for a row found, the
\* document get_job_status returns.
job_status_route(c, u, j) ==
    /\ client[c].pc = "idle"
    /\ obs' = IF j \in DOMAIN db /\ db[j].user_id = u
              THEN RouteResponse(c, "job_status", u, j, 200, get_job_status(j))
              ELSE RouteResponse(c, "job_status", u, j, 404, None)
    /\ UNCHANGED <<is_running, workers, job_queue, db, pc, job_id, file_idx,
                   result, client, job_status, enq_log, file_uploads>>

\* ----------------------------------------------------------------- Next
\* The worker threads' steps.
WorkerStep(w) ==
    \/ WorkerLoop(w)
    \/ WorkerGet(w)
    \/ WorkerTimeout(w)
    \/ ProcessJobStart(w)
    \/ OperationFile(w)
    \/ ProcessJobCompleted(w)
    \/ ProcessJobFinal(w)
    \/ ProcessJobFailed(w)

\* The application as routes.py runs it: start_queue_manager() at import
\* (nothing in the repository calls stop()), requests creating jobs of any
\* modelled type and cancelling any id, and the worker threads.
Next ==
    \/ start
    \/ \E j \in 1..MaxJobs, kind \in JobTypes, n \in 1..MaxFiles :
          CreateJob(j, kind, n)
    \/ \E j \in JobIds : add_job(j)
    \/ \E w \in Threads : WorkerStep(w)
    \/ \E c \in Clients, j \in JobIds : CancelRead(c, j)
    \/ \E c \in Clients : CancelCommit(c)

Spec == Init /\ [][Next]_vars

\* The QueueManager driven through its whole interface: start() and stop()
\* in any order, max_workers + 1 jobs of one file each (one type whose
\* operation raises, one whose operation returns), and the worker threads.
NextLifecycle ==
    \/ start
    \/ stop
    \/ \E j \in 1..(max_workers + 1), kind \in {"merge", "jpg_to_pdf"} :
          CreateJob(j, kind, 1)
    \/ \E j \in JobIds : add_job(j)
    \/ \E w \in Threads : WorkerStep(w)

SpecLifecycle == Init /\ [][NextLifecycle]_vars

\* The pool left to itself: start(), job creation and the worker threads, no
\* cancel_job.  Fairness: start_queue_manager() runs when routes.py is
\* imported, and the operating system schedules every live thread, whose
\* operations return.
NextPool ==
    \/ start
    \/ \E j \in 1..MaxJobs, kind \in JobTypes, n \in 1..MaxFiles :
          CreateJob(j, kind, n)
    \/ \E j \in JobIds : add_job(j)
    \/ \E w \in Threads : WorkerStep(w)

SpecFair ==
    /\ Init /\ [][NextPool]_vars
    /\ WF_vars(start)
    /\ \A w \in Threads : WF_vars(WorkerStep(w))

\* End-to-end scenario: a running pool of max_workers threads, jobs of three
\* input files each, no cancel_job.  Fairness as in SpecFair.
NextScenario ==
    \/ start
    \/ \E j \in 1..MaxJobs, kind \in JobTypes : CreateJob(j, kind, 3)
    \/ \E j \in JobIds : add_job(j)
    \/ \E w \in Threads : WorkerStep(w)

SpecScenario ==
    /\ Init /\ [][NextScenario]_vars
    /\ WF_vars(start)
    /\ \A w \in Threads : WF_vars(WorkerStep(w))

\* The running application with cancel_job under fair scheduling of its
\* worker threads: jobs of one file each, one type whose operation raises
\* and one whose operation returns; requests may cancel at any moment.
NextCancel ==
    \/ start
    \/ \E j \in 1..MaxJobs, kind \in {"merge", "jpg_to_pdf"} :
          CreateJob(j, kind, 1)
    \/ \E j \in JobIds : add_job(j)
    \/ \E w \in Threads : WorkerStep(w)
    \/ \E c \in Clients, j \in JobIds : CancelRead(c, j)
    \/ \E c \in Clients : CancelCommit(c)

SpecFairCancel ==
    /\ Init /\ [][NextCancel]_vars
    /\ WF_vars(start)
    /\ \A w \in Threads : WF_vars(WorkerStep(w))

\* Queue-depth scenario: one client submits ScenarioJobs jobs of one file
\* each, one request after the other (a job is created once the previous
\* one is enqueued), alternating a type whose operation raises with one
\* whose operation returns; no cancel_job.  Fairness as in SpecFair.
NextDepth ==
    \/ start
    \/ \E j \in 1..ScenarioJobs :
          /\ Len(enq_log) = Len(db)
          /\ CreateJob(j, IF j % 2 = 1 THEN "merge" ELSE "jpg_to_pdf", 1)
    \/ \E j \in 1..ScenarioJobs : add_job(j)
    \/ \E w \in Threads : WorkerStep(w)

SpecDepth ==
    /\ Init /\ [][NextDepth]_vars
    /\ WF_vars(start)
    /\ \A w \in Threads : WF_vars(WorkerStep(w))

\* The pool with a vanished record: jobs of one file each, and one id (the
\* one beyond MaxJobs, which CreateJob never uses here) whose row was
\* deleted while it was queued; no cancel_job.  Fairness as in SpecFair.
NextVanish ==
    \/ start
    \/ \E j \in 1..MaxJobs, kind \in {"merge", "jpg_to_pdf"} :
          CreateJob(j, kind, 1)
    \/ \E j \in 1..MaxJobs : add_job(j)
    \/ EnqueueVanished(MaxJobs + 1)
    \/ \E w \in Threads : WorkerStep(w)

SpecVanish ==
    /\ Init /\ [][NextVanish]_vars
    /\ WF_vars(start)
    /\ \A w \in Threads : WF_vars(WorkerStep(w))

\* The running application under observation: start(), jobs of one file
\* each, the worker threads, cancel_job, and requests that call
\* get_job_status and get_queue_status at any moment.
NextObserve ==
    \/ start
    \/ \E j \in 1..MaxJobs, kind \in {"merge", "jpg_to_pdf"} :
          CreateJob(j, kind, 1)
    \/ \E j \in JobIds : add_job(j)
    \/ \E w \in Threads : WorkerStep(w)
    \/ \E c \in Clients, j \in JobIds : CancelRead(c, j)
    \/ \E c \in Clients : CancelCommit(c)
    \/ \E c \in Clients, j \in JobIds : GetJobStatus(c, j)
    \/ \E c \in Clients : GetQueueStatus(c)

SpecObserve == Init /\ [][NextObserve]_vars

\* Admission: requests of both users upload files, create jobs through
\* /process and through a tool page, and enqueue them.
NextAdmission ==
    \/ \E c \in Clients, u \in Users, sizes \in FileLists :
          upload_files(c, u, sizes)
    \/ \E c \in Clients, u \in Users, t \in JobTypeStrings,
          ids \in SUBSET (1..(MaxUploads + 1)) :
          process_files(c, u, t, ids)
    \/ \E c \in Clients, u \in Users, sizes \in FileLists :
          tool_page(c, u, "merge", sizes)
    \/ \E j \in JobIds : add_job(j)

SpecAdmission == Init /\ [][NextAdmission]_vars

\* The upload route alone: requests of both users send batches of every
\* modelled length and size.
NextUpload ==
    \E c \in Clients, u \in Users, sizes \in UploadBatches :
       upload_files(c, u, sizes)

SpecUpload == Init /\ [][NextUpload]_vars

\* Jobs of two users: each user creates jobs through a tool page (of a type
\* whose operation raises or of one whose operation returns), the pool runs
\* them, and each user sends cancel and status requests for any id.
NextOwnership ==
    \/ start
    \/ \E c \in Clients, u \in Users, kind \in {"merge", "jpg_to_pdf"},
          sizes \in FileLists :
          /\ client[c].pc = "idle"
          /\ tool_page(c, u, kind, sizes)
    \/ \E j \in JobIds : add_job(j)
    \/ \E w \in Threads : WorkerStep(w)
    \/ \E c \in Clients, u \in Users, j \in JobIds : cancel_job_route(c, u, j)
    \/ \E c \in Clients : CancelCommit(c)
    \/ \E c \in Clients, u \in Users, j \in JobIds : job_status_route(c, u, j)

SpecOwnership == Init /\ [][NextOwnership]_vars

\* process_job's dispatch under test: the running pool with jobs of one file
\* each, of a type whose operation raises, of one whose operation returns,
\* and of a type that no branch names; no cancel_job.
NextDispatch ==
    \/ start
    \/ \E j \in 1..MaxJobs,
          kind \in {"merge", "jpg_to_pdf"} \cup UnbranchedKinds :
          CreateJob(j, kind, 1)
    \/ \E j \in JobIds : add_job(j)
    \/ \E w \in Threads : WorkerStep(w)

SpecDispatch == Init /\ [][NextDispatch]_vars

\* The QueueManager's lifecycle under fair scheduling of its threads:
\* start() and stop() in any order and at any moment, jobs of one file
\* each (one type whose operation raises, one whose operation returns), and
\* the worker threads, every one of which the operating system keeps
\* scheduling while it lives.  Nothing obliges a caller to start or stop.
NextShutdown ==
    \/ start
    \/ stop
    \/ \E j \in 1..MaxJobs, kind \in {"merge", "jpg_to_pdf"} :
          CreateJob(j, kind, 1)
    \/ \E j \in JobIds : add_job(j)
    \/ \E w \in Threads : WorkerStep(w)

SpecShutdown ==
    /\ Init /\ [][NextShutdown]_vars
    /\ \A w \in Threads : WF_vars(WorkerStep(w))

\* =============================================================== claims
Rows == DOMAIN db

\* C1: once a row's status is COMPLETED, FAILED or CANCELLED, no step of a
\* worker or of cancel_job changes it to a different status.
C1_TerminalStatusIsFinal ==
    [][\A j \in Rows :
          db[j].status \in Terminal => db'[j].status = db[j].status]_vars

\* C2: a worker that dequeues a job already cancelled (the row it loads is
\* CANCELLED) skips it: the row is never made PROCESSING, the operation is
\* not entered, the row stays CANCELLED with started_at unset.
C2_CancelledPendingIsSkipped ==
    [][\A w \in Threads :
          (pc[w] = "start" /\ job_status[w] = "CANCELLED")
          => /\ pc'[w] # "op"
             /\ db'[job_id[w]].status = "CANCELLED"
             /\ ~db'[job_id[w]].started_at]_vars

\* C3: if the row is CANCELLED while a worker executes the job's operation,
\* the worker's write of COMPLETED or FAILED leaves the status CANCELLED.
C3_TerminalWriteKeepsCancelled ==
    [][\A w \in Threads :
          (pc[w] = "op" /\ db[job_id[w]].status = "CANCELLED")
          => db'[job_id[w]].status = "CANCELLED"]_vars

\* C4: a job whose worker has committed COMPLETED (and is about to write
\* progress 100) never has the stored status CANCELLED, whatever the
\* interleaving with cancel_job's read and commit.
C4_CompletedNotRegressed ==
    \A w \in Threads : pc[w] = "final" => db[job_id[w]].status # "CANCELLED"

C6_AtMostWProcessing ==
    Cardinality({j \in Rows : db[j].status = "PROCESSING"}) <= max_workers

C8_FailureIsIsolated ==
    /\ [][\A w \in Threads :
            /\ (/\ pc[w] = "op"
                /\ OpRaises(db[job_id[w]].job_type, db[job_id[w]].total_files)
                /\ pc'[w] # "op")
               => /\ db'[job_id[w]].status = "FAILED"
                  /\ \A j \in Rows \ {job_id[w]} : db'[j] = db[j]
                  /\ job_queue' = job_queue
                  /\ pc'[w] = "check"
            /\ (pc[w] # "exit" /\ pc'[w] = "exit")
               => pc[w] \in {"check", "get"} /\ ~is_running
       ]_vars
    /\ \A j \in 1..MaxJobs :
          LET SomeFailed == \E j1 \in Rows : db[j1].status = "FAILED" IN
          /\ (SomeFailed /\ j \in Range(job_queue)) ~> (j \notin Range(job_queue))
          /\ (/\ SomeFailed
              /\ \E w \in Threads : job_id[w] = j
              /\ j \in Rows
              /\ ~OpRaises(db[j].job_type, db[j].total_files))
             ~> (j \in Rows /\ db[j].status = "COMPLETED" /\ db[j].progress = 100)

\* C8 witness: a job has FAILED and another job is COMPLETED with progress
\* 100 while both launched threads are in their loops.
C8_Witness ==
    \E j1, j2 \in Rows :
        /\ db[j1].status = "FAILED" /\ db[j1].error_message # ""
        /\ db[j2].status = "COMPLETED" /\ db[j2].progress = 100
        /\ j1 < j2
        /\ \A w \in Range(workers) : pc[w] \in {"check", "get"}

\* C9: every COMPLETED row has a non-empty output_files list.
C9_CompletedHasOutputs ==
    \A j \in Rows :
        db[j].status = "COMPLETED"
        => db[j].output_files # NULL /\ Len(db[j].output_files) > 0

\* C10: in every committed row, progress is 100 exactly when status is
\* COMPLETED.
C10_Progress100IffCompleted ==
    \A j \in Rows : (db[j].progress = 100) <=> (db[j].status = "COMPLETED")

C12_ErrorOnlyIfFailed ==
    \A j \in Rows : db[j].error_message # "" => db[j].status = "FAILED"

\* C13: a row has a non-empty output_files list only if its status is
\* COMPLETED: never on a PENDING, PROCESSING, FAILED or CANCELLED row.
C13_OutputsOnlyIfCompleted ==
    \A j \in Rows :
        (db[j].output_files # NULL /\ Len(db[j].output_files) > 0)
        => db[j].status = "COMPLETED"

\* C14: a merge job with 3 input files submitted to the running pool
\* eventually has status COMPLETED with exactly one output file.
C14_MergeOfThreeCompletes ==
    \A j \in 1..MaxJobs :
        (/\ is_running
         /\ j \in Rows /\ j \in Range(job_queue)
         /\ db[j].job_type = "merge" /\ db[j].total_files = 3)
        ~> (/\ j \in Rows
            /\ db[j].status = "COMPLETED"
            /\ db[j].output_files # NULL /\ Len(db[j].output_files) = 1)

\* C15: an id that add_job accepted is not dropped: once the manager runs,
\* the id is eventually out of the queue with its row COMPLETED, FAILED or
\* CANCELLED.
C15_AcceptedJobIsFinished ==
    \A j \in 1..MaxJobs :
        (is_running /\ j \in Range(enq_log))
        ~> (/\ j \notin Range(job_queue)
            /\ j \in Rows /\ db[j].status \in Terminal)

\* C15 witness: two ids were accepted while both workers were busy or the
\* queue non-empty, and both rows are now terminal with the queue drained.
C15_Witness ==
    /\ is_running
    /\ Len(enq_log) = 2 /\ job_queue = <<>>
    /\ \A j \in Range(enq_log) : db[j].status \in Terminal
    /\ \E j \in Range(enq_log) : db[j].status = "CANCELLED"
    /\ \A w \in Range(workers) : pc[w] \in {"check", "get"}

\* C16: a job is attempted once.  A thread enters the operation of a job
\* only if no thread entered it before (started_at, which only that entry
\* sets, is still unset); a job that was started, or that is FAILED, is not
\* in the queue again, and a FAILED job is held by no thread.
C16_AttemptedOnce ==
    /\ [][\A w \in Threads :
            (pc[w] = "start" /\ pc'[w] = "op") => ~db[job_id[w]].started_at
       ]_vars
    /\ [](\A j \in Rows :
            /\ db[j].started_at => j \notin Range(job_queue)
            /\ db[j].status = "FAILED"
               => j \notin Range(job_queue) /\ \A w \in Threads : job_id[w] # j)
    /\ [](\A w1, w2 \in Threads :
            (w1 # w2 /\ job_id[w1] # 0) => job_id[w1] # job_id[w2])

\* C16 witness: both enqueued jobs were started, one of them FAILED, and
\* the workers are idle on an empty queue.
C16_Witness ==
    /\ Len(enq_log) = 2 /\ job_queue = <<>>
    /\ \A j \in Range(enq_log) : db[j].started_at
    /\ \E j \in Range(enq_log) : db[j].status = "FAILED"
    /\ \A w \in Range(workers) : pc[w] = "get"

\* C17: one worker at a time owns a job's row.  No two threads hold the same
\* job id, and a step that changes a row is either cancel_job's commit or a
\* step of the one thread that holds that row's id.
C17_SingleWriter ==
    /\ [](\A w1, w2 \in Threads :
            (job_id[w1] # 0 /\ job_id[w1] = job_id[w2]) => w1 = w2)
    /\ [][\A j \in Rows :
            db'[j] # db[j]
            => \/ \E c \in Clients : client[c].pc = "commit" /\ client[c].job = j
               \/ \E w \in Threads :
                     /\ job_id[w] = j
                     /\ pc'[w] # pc[w] \/ file_idx'[w] # file_idx[w]
                     /\ \A w2 \in Threads \ {w} :
                           /\ job_id[w2] # j
                           /\ pc'[w2] = pc[w2] /\ file_idx'[w2] = file_idx[w2]
       ]_vars

\* C17 witness: both workers are between their PROCESSING commit and their
\* terminal write, each on its own job.
C17_Witness ==
    \E w1, w2 \in Threads :
        /\ w1 # w2
        /\ pc[w1] = "op" /\ pc[w2] \in {"op", "final"}
        /\ job_id[w1] # job_id[w2]
        /\ db[job_id[w1]].progress > 0

\* C18: the call of start() that sets is_running launches exactly
\* max_workers threads, each at its loop test, and touches no other thread;
\* while the manager is running no step (so no further start()) changes the
\* worker list or the flag: a running manager has exactly max_workers
\* threads, however many times start() was called.
C18_StartIdempotent ==
    /\ [][/\ (~is_running /\ is_running')
              => /\ workers = <<>>
                 /\ Len(workers') = max_workers
                 /\ \A w \in Threads :
                       pc'[w] = IF w \in Range(workers') THEN "check" ELSE pc[w]
          /\ is_running => (is_running' /\ workers' = workers)
       ]_vars
    /\ [](/\ is_running <=> Len(workers) = max_workers
          /\ ~is_running <=> workers = <<>>
          /\ Cardinality({w \in Threads : pc[w] # "off"}) = Len(workers))

\* C18 witness: the manager is running with its max_workers threads, one of
\* them inside a job, in a state where start() can be called again.
C18_Witness ==
    /\ is_running /\ ENABLED start
    /\ Len(workers) = max_workers
    /\ \E w \in Range(workers) : pc[w] = "op"

\* C19: after stop(), once every worker thread has ended, add_job accepts
\* no id: the queue does not grow.
C19_AddJobFailsAfterStop ==
    [][(/\ ~is_running
        /\ workers # <<>>
        /\ \A w \in Range(workers) : pc[w] = "exit")
       => /\ Len(job_queue') <= Len(job_queue)
          /\ enq_log' = enq_log]_vars

\* C20: add_job never waits.  In every state the request that created a row
\* can complete its add_job call, whatever the workers are doing and however
\* many ids are queued, and the call leaves the queue as it was with the id
\* appended at the tail.
C20_AddJobNeverBlocks ==
    /\ [](\A j \in Rows \ Range(enq_log) : ENABLED add_job(j))
    /\ [][Len(enq_log') > Len(enq_log)
          => job_queue' = Append(job_queue, enq_log'[Len(enq_log')])]_vars

\* C20 witness: max_workers threads are busy with jobs and the id add_job
\* accepted last is waiting, still PENDING, at the tail of the queue.
C20_Witness ==
    /\ Cardinality({w \in Threads : pc[w] \in {"start", "op", "final"}})
          >= max_workers
    /\ Len(job_queue) >= 1
    /\ job_queue[Len(job_queue)] = enq_log[Len(enq_log)]
    /\ db[job_queue[Len(job_queue)]].status = "PENDING"

\* C21: get_queue_status reports worker_count = max_workers in every state:
\* before start(), while running, after stop() and after further start()s.
C21_WorkerCountIsConfigured ==
    get_queue_status.worker_count = max_workers

\* C22: once ScenarioJobs jobs have been submitted and no further one is,
\* the queue_size get_queue_status reports never increases from one state to
\* the next, and on a running pool it eventually is 0.
C22_DepthDecreasesToZero ==
    /\ [][Len(enq_log) = ScenarioJobs
          => get_queue_status'.queue_size <= get_queue_status.queue_size]_vars
    /\ (Len(enq_log) = ScenarioJobs /\ is_running)
          ~> (get_queue_status.queue_size = 0)

\* C22 witness: all ScenarioJobs jobs are submitted, both workers are busy
\* and the reported depth is ScenarioJobs - max_workers, on its way down.
C22_Witness ==
    /\ Len(enq_log) = ScenarioJobs
    /\ get_queue_status.queue_size = ScenarioJobs - max_workers
    /\ get_queue_status.is_running
    /\ \A w \in Range(workers) : pc[w] = "op"

\* C23: the progress of every row stays within 0..100 and never decreases
\* from one committed state to the next (so neither does any sequence of
\* get_job_status observations), and a row that is COMPLETED eventually
\* shows progress 100.
C23_ProgressMonotoneTo100 ==
    /\ [](\A j \in Rows : get_job_status(j).progress \in 0..100)
    /\ [][\A j \in Rows :
            get_job_status(j)'.progress >= get_job_status(j).progress]_vars
    /\ \A j \in 1..MaxJobs :
          (j \in Rows /\ get_job_status(j).status = "COMPLETED")
          ~> (j \in Rows /\ get_job_status(j).progress = 100)

\* C23 witness: one job is COMPLETED with progress 100 while another is
\* PROCESSING with two of its three files done and a progress in between.
C23_Witness ==
    \E j1, j2 \in Rows :
        /\ db[j1].status = "COMPLETED" /\ db[j1].progress = 100
        /\ db[j2].status = "PROCESSING" /\ db[j2].processed_files = 2
        /\ db[j2].progress > 50 /\ db[j2].progress < 100

\* C24: for an id with no row, get_job_status returns None, which no row's
\* snapshot equals, and cancel_job returns a result other than the False it
\* returns for a row that is already COMPLETED, FAILED or CANCELLED.
C24_NotFoundIsDistinguished ==
    [][\A c \in Clients, j \in JobIds :
          (CancelRead(c, j) /\ j \notin Rows)
          => /\ get_job_status(j) = None
             /\ \A k \in Rows : get_job_status(k) # None
             /\ client'[c].pc = "idle"
             /\ client'[c].ret \notin {"true", "false"}]_vars

\* C25: a worker that dequeues an id with no row takes the id off the queue,
\* changes no row and creates none, holds no job and enters no operation,
\* and is back at its loop test; every id still queued is then dequeued.
C25_VanishedIsSkipped ==
    /\ [][\A w \in Threads :
            (/\ pc[w] = "get" /\ pc'[w] # "get"
             /\ job_queue # <<>> /\ Head(job_queue) \notin Rows)
            => /\ db' = db
               /\ job_queue' = Tail(job_queue)
               /\ pc'[w] = "check"
               /\ job_id'[w] = 0
       ]_vars
    /\ \A j \in 1..MaxJobs :
          (is_running /\ j \in Range(job_queue)) ~> (j \notin Range(job_queue))

\* C25 witness: the id without a row was enqueued first and has been
\* dequeued; the job enqueued behind it has since been run to COMPLETED.
C25_Witness ==
    /\ Len(enq_log) >= 2
    /\ enq_log[1] \notin Rows
    /\ enq_log[1] \notin Range(job_queue)
    /\ enq_log[2] \in Rows /\ db[enq_log[2]].status = "COMPLETED"
    /\ \A w \in Range(workers) : pc[w] \in {"check", "get"}

\* C26: in every row, completed_at is set exactly when the status is
\* COMPLETED, FAILED or CANCELLED (unset on PENDING and PROCESSING rows), and
\* a PENDING row has started_at unset.
C26_TimestampsFollowStatus ==
    \A j \in Rows :
        /\ db[j].completed_at <=> db[j].status \in Terminal
        /\ db[j].status = "PENDING" => ~db[j].started_at

\* C27: no step removes a row or changes its user_id, job_type, input_files,
\* settings or total_files (the row's id is its key): a step changes at most
\* status, progress, processed_files, output_files, error_message,
\* started_at and completed_at, and the commit of cancel_job changes at most
\* status and completed_at.
C27_CreationFieldsAreFixed ==
    [][/\ Len(db') >= Len(db)
       /\ \A j \in Rows :
             /\ db[j] = [db'[j] EXCEPT
                           !.status = db[j].status,
                           !.progress = db[j].progress,
                           !.processed_files = db[j].processed_files,
                           !.output_files = db[j].output_files,
                           !.error_message = db[j].error_message,
                           !.started_at = db[j].started_at,
                           !.completed_at = db[j].completed_at]
             /\ (\E c \in Clients :
                    client[c].pc = "commit" /\ client'[c].pc = "idle")
                => db[j] = [db'[j] EXCEPT
                              !.status = db[j].status,
                              !.completed_at = db[j].completed_at]
    ]_vars

\* C27 witness: a row that the worker ran to the end and cancel_job then
\* overwrote still has the two input files it was created with.
C27_Witness ==
    \E j \in Rows :
        /\ db[j].status = "CANCELLED" /\ db[j].progress = 100
        /\ db[j].output_files # NULL
        /\ db[j].job_type = "jpg_to_pdf"
        /\ db[j].total_files = 2 /\ db[j].input_files = <<1, 2>>
        /\ db[j].user_id = 1 /\ db[j].settings = "{}"

\* C28: a call of get_job_status or get_queue_status, in any state and next
\* to workers and cancel_job, returns the snapshot of that state and changes
\* no row, not the queue, not the running flag and not the worker list (nor
\* any thread's position or a pending cancel_job call).
C28_ObserversAreReadOnly ==
    [][\A c \in Clients :
          /\ \A j \in JobIds :
                GetJobStatus(c, j)
                => /\ obs'[c].value = get_job_status(j)
                   /\ <<db, job_queue, is_running, workers>>'
                        = <<db, job_queue, is_running, workers>>
                   /\ <<pc, job_id, client>>' = <<pc, job_id, client>>
          /\ GetQueueStatus(c)
             => /\ obs'[c].value = get_queue_status
                /\ <<db, job_queue, is_running, workers>>'
                     = <<db, job_queue, is_running, workers>>
                /\ <<pc, job_id, client>>' = <<pc, job_id, client>>
    ]_vars

\* C28 witness: get_queue_status has just returned a depth of one on a
\* running manager while a worker is inside a job, and the id it counted is
\* still in the queue.
C28_Witness ==
    \E c \in Clients :
        /\ obs[c].call = "get_queue_status"
        /\ obs[c].value = get_queue_status
        /\ obs[c].value.queue_size = 1 /\ obs[c].value.is_running
        /\ \E w \in Threads : pc[w] = "op"

\* C29: every job that add_job accepted satisfies its owner's tier limits:
\* at most batch_limit input files, each of at most file_limit MB.
C29_EnqueuedWithinTierLimits ==
    \A j \in Range(enq_log) :
        j \in Rows =>
          /\ db[j].total_files <= batch_limit(db[j].user_id)
          /\ \A i \in DOMAIN db[j].input_files :
                file_uploads[db[j].input_files[i]].file_size
                  <= file_limit(db[j].user_id)

\* C30: a /process request whose job_type is no JobType value, or one of
\* whose file ids names no FileUpload row or a row of another user, is
\* answered 400 at once: no job row is stored and nothing is enqueued.
C30_InvalidRequestIsRejected ==
    [][\A c \in Clients, u \in Users, t \in JobTypeStrings,
         ids \in SUBSET (1..(MaxUploads + 1)) :
          (/\ process_files(c, u, t, ids)
           /\ \/ t \notin JobTypes
              \/ \E f \in ids : \/ f \notin DOMAIN file_uploads
                                 \/ file_uploads[f].user_id # u)
          => /\ obs'[c] = [call |-> "process_files", value |-> [code |-> 400]]
             /\ db' = db
             /\ job_queue' = job_queue /\ enq_log' = enq_log
    ]_vars

\* C30 witness: files are uploaded, a /process request has just been
\* answered 400, and there is neither a job row nor a queued id.
C30_Witness ==
    \E c \in Clients :
        /\ obs[c] = [call |-> "process_files", value |-> [code |-> 400]]
        /\ Len(file_uploads) >= 2
        /\ \E f, g \in DOMAIN file_uploads :
              file_uploads[f].user_id # file_uploads[g].user_id
        /\ db = <<>> /\ job_queue = <<>>

\* C31: upload_files applies the tier policy to the whole batch.  With the
\* limits 5 MB and 3 files for a free account and 100 MB and 100 files for a
\* premium one, a request whose batch breaks its requester's limits is
\* answered 400 and adds no row to file_uploads (no file is saved either:
\* files are saved only together with their rows); a step that does add
\* rows is a request answered 200 and adds one whole batch that is within
\* the limits of its owner.
C31_UploadIsAtomic ==
    [][LET WithinTier(u, sizes) ==
               /\ Len(sizes) <= (IF u = 2 THEN 100 ELSE 3)
               /\ \A i \in DOMAIN sizes :
                     sizes[i] <= (IF u = 2 THEN 100 ELSE 5)
       IN  /\ \A c \in Clients :
                 (/\ obs'[c] # obs[c]
                  /\ obs'[c].call = "upload_files"
                  /\ obs'[c].value.code = 400)
                 => file_uploads' = file_uploads
           /\ file_uploads' # file_uploads
              => \E u \in Users, sizes \in UploadBatches :
                    /\ WithinTier(u, sizes)
                    /\ file_uploads' = file_uploads \o NewUploads(u, sizes)
                    /\ \E c \in Clients :
                          /\ obs'[c].call = "upload_files"
                          /\ obs'[c].value.code = 200
                          /\ \A d \in Clients \ {c} : obs'[d] = obs[d]]_vars

\* A free user's rows are stored, and the last request, rejected, left
\* them as they were.
C31_Witness ==
    /\ \E f \in DOMAIN file_uploads : file_uploads[f].user_id = 1
    /\ \E f \in DOMAIN file_uploads :
          /\ file_uploads[f].user_id = 2
          /\ file_uploads[f].file_size > FREE_USER_FILE_LIMIT
    /\ \E c \in Clients :
          /\ obs[c].call = "upload_files"
          /\ obs[c].value.code = 400

\* C32: after any sequence of start() and stop() calls, at most max_workers
\* executor loops are live (launched and not yet out of their loop) and the
\* worker list holds at most max_workers threads.
C32_AtMostWLoops ==
    /\ Cardinality({w \in Threads : pc[w] \notin {"off", "exit"}})
          <= max_workers
    /\ Len(workers) <= max_workers

\* C33: graceful shutdown.  Once stop() has cleared the flag, every executor
\* loop that is live at that moment eventually leaves its loop (the
\* operations of the model always return).
C33_LoopsEndAfterStop ==
    \A w \in Threads :
       (~is_running /\ pc[w] \notin {"off", "exit"}) ~> (pc[w] = "exit")

\* C34: on both job-creation paths the row is committed with status
\* PENDING before its id is put on the queue, a worker never dequeues an id
\* whose row is not visible, and every id was PENDING at the moment add_job
\* put it.
C34_PendingWhenEnqueued ==
    [][/\ Len(db') > Len(db)
          => /\ db'[Len(db')].status = "PENDING"
             /\ Len(db') \notin Range(enq_log')
       /\ enq_log' # enq_log
          => /\ enq_log'[Len(enq_log')] \in DOMAIN db
             /\ db[enq_log'[Len(enq_log')]].status = "PENDING"
       /\ (job_queue # <<>> /\ job_queue' = Tail(job_queue))
          => Head(job_queue) \in DOMAIN db]_vars

\* C35: every member of JobType is named by exactly one branch of
\* process_job's chain, which calls one operation for it; and a job whose
\* type no branch names is never COMPLETED: the step that ends its
\* process_job stores FAILED with the message "Unknown job type: <type>".
C35_DispatchIsTotal ==
    [][/\ \A kind \in JobType :
             /\ Cardinality({i \in DOMAIN Branches :
                               kind \in Branches[i].kinds}) = 1
             /\ Dispatch(kind) \in {Branches[i].op : i \in DOMAIN Branches}
       /\ \A w \in Threads :
             (/\ pc[w] = "op"
              /\ \A i \in DOMAIN Branches :
                    db[job_id[w]].job_type \notin Branches[i].kinds)
             => /\ db'[job_id[w]].status # "COMPLETED"
                /\ pc'[w] # "op"
                   => /\ db'[job_id[w]].status = "FAILED"
                      /\ db'[job_id[w]].error_message =
                            "Unknown job type: " \o db[job_id[w]].job_type
                      /\ db'[job_id[w]].output_files = NULL]_vars

\* A job of a type that no branch names has been processed and is FAILED
\* with the message naming its type, and a job of a known type is over too.
C35_Witness ==
    /\ \E j \in DOMAIN db :
          /\ db[j].job_type \notin JobType
          /\ db[j].status = "FAILED"
          /\ db[j].error_message = "Unknown job type: flatten"
    /\ \E j \in DOMAIN db :
          /\ db[j].job_type \in JobType
          /\ db[j].status \in {"COMPLETED", "FAILED"}

\* C36: in every reachable state every row has 0 <= processed_files <=
\* total_files and total_files equal to the number of its input files, as
\* fixed at creation; no step changes total_files or lowers
\* processed_files.
C36_ProcessedWithinTotal ==
    [][\A j \in DOMAIN db' :
          /\ 0 <= db'[j].processed_files
          /\ db'[j].processed_files <= db'[j].total_files
          /\ db'[j].total_files = Len(db'[j].input_files)
          /\ j \in DOMAIN db
             => /\ db'[j].total_files = db[j].total_files
                /\ db'[j].input_files = db[j].input_files
                /\ db'[j].processed_files >= db[j].processed_files]_vars

\* One job is part-way through its files and another has counted them all.
C36_Witness ==
    /\ \E j \in DOMAIN db :
          /\ 0 < db[j].processed_files
          /\ db[j].processed_files < db[j].total_files
    /\ \E j \in DOMAIN db :
          /\ db[j].status = "COMPLETED"
          /\ db[j].processed_files = db[j].total_files

\* C37: the cancel and status routes act only on jobs of the requesting
\* user.  A request naming a job of another user (or no job) is answered
\* 404, carries no status document and changes no row and no cancel_job
\* call; a request naming an own job is not answered 404; and a row becomes
\* CANCELLED or gets completed_at from cancel_job only through a request of
\* its owner.
C37_RoutesCheckOwner ==
    [][\A c \in Clients :
          /\ (/\ obs'[c] # obs[c]
              /\ obs'[c].call \in {"cancel_job", "job_status"})
             => IF /\ obs'[c].value.job \in DOMAIN db
                   /\ db[obs'[c].value.job].user_id = obs'[c].value.user
                THEN obs'[c].value.code # 404
                ELSE /\ obs'[c].value.code = 404
                     /\ obs'[c].value.status = None
                     /\ db' = db
                     /\ client' = client
          /\ (client[c].pc = "commit" /\ client'[c].pc # "commit")
             => /\ obs[c].call = "cancel_job"
                /\ obs[c].value.job = client[c].job
                /\ obs[c].value.user = db[client[c].job].user_id
                /\ \A j \in DOMAIN db :
                      j # client[c].job => db'[j] = db[j]]_vars

\* A user asked to cancel a job of the other user, which is stored and not
\* CANCELLED, and was answered 404.
C37_Witness ==
    \E c \in Clients :
       /\ obs[c].call = "cancel_job"
       /\ obs[c].value.code = 404
       /\ obs[c].value.job \in DOMAIN db
       /\ db[obs[c].value.job].user_id # obs[c].value.user
       /\ db[obs[c].value.job].status \in {"PENDING", "PROCESSING"}

====
